---- MODULE Spec2Model ----
(***************************************************************************)
(* The UGMSA Telegram bot (src/bot.py): the knowledge-base cache, the      *)
(* per-user conversation store, the chat handler and the button handler.   *)
(*                                                                         *)
(* Text is a sequence of tokens (strings); the empty sequence is the empty *)
(* string.  Python's None is the value None below.  A handler runs without *)
(* interruption between two awaits (asyncio), so each action is the code   *)
(* between two awaits; handlers of different users interleave at awaits.   *)
(* A handler whose edit raised stays visible in the except branch that     *)
(* swallows the exception for the rest of that step of the event loop:     *)
(* nothing else runs before it has returned.                               *)
(***************************************************************************)
EXTENDS Naturals, Sequences, FiniteSets, TLC

\* ------------------------------------------------------------------ bounds
\* user messages held by the conversations since their last clear, over all users
MaxMsgs == 6
\* of these, the messages whose inference call raised or returned no text
MaxFailedTurns == 1
\* the messages of scenario C (ScenarioSpec)
ScenarioMsgs == 11
\* user messages held by the conversations at one time when every delivery
\* succeeds (LiveSpec)
LiveMsgs == 3

\* ------------------------------------------------------- program constants
\* "Keep only last 10 messages"
K == 10

Users == {"u1", "u2"}
UGMSA_DOC_IDS == <<"doc1">>

None == <<"<None>">>
NoCall == <<"<no call yet>">>

DOC_LABEL == <<"=== OFFICIAL DOCUMENT ===", "\n">>
WEBSITE_LABEL == <<"=== UGMSA WEBSITE (ugmsa.org) ===", "\n">>
PLACEHOLDER == <<"I'm not sure how to respond. Could you rephrase your question?">>
APOLOGY == <<"Oops! Something went wrong">>
PREAMBLE == <<"You are a friendly and knowledgeable AI assistant for UGMSA">>
USE_INFO == <<"Use this official information to answer questions:", "\n\n">>
ANSWER_DIRECTLY == <<"\n\n", "IMPORTANT: Answer questions directly">>
FORMATTING_GUIDELINES == <<"FORMATTING GUIDELINES:">>
CLEARED_TEXT == <<"Chat History Cleared!">>
MENU_TEXT == <<"Main Menu">>

\* Python truthiness of an Optional[str]
Truthy(x) == x # None /\ x # <<>>

\* ------------------------------------------------------------ environment
\* What one HTTP GET can do: raise, answer a non-200 status, or answer 200.
\* A document's body is its text; a page's body is a sequence of elements.
DocResponses ==
  { [raised |-> TRUE, status |-> 0, text |-> <<>>],
    [raised |-> FALSE, status |-> 404, text |-> <<"Not Found">>],
    [raised |-> FALSE, status |-> 200, text |-> <<>>],
    [raised |-> FALSE, status |-> 200, text |-> <<"Programs: mentorship, tutoring.">>] }

El(tag, line) == [tag |-> tag, line |-> line]

WebResponses ==
  { [raised |-> TRUE, status |-> 0, body |-> <<>>],
    [raised |-> FALSE, status |-> 404, body |-> <<El("p", "Not Found")>>],
    [raised |-> FALSE, status |-> 200, body |-> <<El("script", "track()"), El("p", " ")>>],
    [raised |-> FALSE, status |-> 200,
       body |-> <<El("nav", "Home"), El("p", "Welcome to UGMSA")>>] }

DocFetches == [1..Len(UGMSA_DOC_IDS) -> DocResponses]

\* the sources, and those among them whose fetch failed: an exception (network
\* error, timeout) or a status other than 200
Sources == {UGMSA_DOC_IDS[i] : i \in 1..Len(UGMSA_DOC_IDS)} \cup {"website"}
Failed(resp) == resp.raised \/ resp.status # 200
FailedSources(docs, web) ==
  {UGMSA_DOC_IDS[i] : i \in {j \in 1..Len(docs) : Failed(docs[j])}}
    \cup (IF Failed(web) THEN {"website"} ELSE {})

\* what the inference service can do with a request: raise, or return content
RAISES == [raised |-> TRUE, content |-> <<>>]
UserText(u, n) == <<"question", u, ToString(n)>>
Answer(u, n) == <<"answer", u, ToString(n)>>
Completions(u, n) ==
  { RAISES, [raised |-> FALSE, content |-> <<>>], [raised |-> FALSE, content |-> Answer(u, n)] }

\* the callback data a button press can carry
ButtonData == {"clear_history", "back_to_menu", "stale_button"}

\* ------------------------------------------------------------------ state
VARIABLES
  env,                    \* which of the two secrets are set
  main,                   \* position of module initialisation and main()
  knowledge_base_cache,   \* None or the blob
  user_conversations,     \* dict: user id -> list of turns
  handler,                \* per user: the handler in flight and its locals
  appended,               \* per user: every turn appended since the last clear
  kb_result               \* what the latest load_knowledge_base call returned

vars == <<env, main, knowledge_base_cache, user_conversations, handler,
          appended, kb_result>>

\* ------------------------------------------------------------ pure helpers
RECURSIVE Join(_, _)
\* sep.join(parts)
Join(sep, parts) ==
  IF parts = <<>> THEN <<>>
  ELSE IF Len(parts) = 1 THEN parts[1]
  ELSE parts[1] \o sep \o Join(sep, Tail(parts))

\* s[:k] where the code takes s[-k:]
FirstK(s, k) == IF Len(s) > k THEN SubSeq(s, 1, k) ELSE s

\* s[-k:] for k > 0
LastK(s, k) == IF Len(s) > k THEN SubSeq(s, Len(s) - k + 1, Len(s)) ELSE s

\* takes the body of any response, whatever its status
fetch_google_doc_any_status(resp) == IF ~resp.raised THEN resp.text ELSE None

fetch_google_doc(resp) ==
  IF ~resp.raised /\ resp.status = 200 THEN resp.text ELSE None

\* decompose script/style/nav/footer, then keep the stripped non-blank lines
Visible(body) ==
  SelectSeq(body, LAMBDA e : e.tag \notin {"script", "style", "nav", "footer"}
                              /\ e.line \notin {"", " "})

RECURSIVE Lines(_)
Lines(els) == IF els = <<>> THEN <<>> ELSE <<<<els[1].line>>>> \o Lines(Tail(els))

fetch_website_content(resp) ==
  IF ~resp.raised /\ resp.status = 200
  THEN Join(<<"\n">>, Lines(Visible(resp.body)))
  ELSE None

RECURSIVE DocSources(_)
\* the loop over UGMSA_DOC_IDS
DocSources(docs) ==
  IF docs = <<>> THEN <<>>
  ELSE LET content == fetch_google_doc(docs[1])
       IN (IF Truthy(content) THEN <<DOC_LABEL \o content>> ELSE <<>>)
          \o DocSources(Tail(docs))

WebSource(web) ==
  LET website_content == fetch_website_content(web)
  IN IF Truthy(website_content) THEN <<WEBSITE_LABEL \o website_content>> ELSE <<>>

\* fetches and overwrites whatever the cache holds
load_knowledge_base_refetch(cache, docs, web) ==
  LET sources == DocSources(docs) \o WebSource(web)
  IN IF sources # <<>>
     THEN [cache |-> Join(<<"\n\n">>, sources),
           result |-> Join(<<"\n\n">>, sources), fetched |-> TRUE]
     ELSE [cache |-> None, result |-> None, fetched |-> TRUE]

\* puts the website before the documents
load_knowledge_base_web_first(cache, docs, web) ==
  IF Truthy(cache)
  THEN [cache |-> cache, result |-> cache, fetched |-> FALSE]
  ELSE LET sources == WebSource(web) \o DocSources(docs)
       IN IF sources # <<>>
          THEN [cache |-> Join(<<"\n\n">>, sources),
                result |-> Join(<<"\n\n">>, sources), fetched |-> TRUE]
          ELSE [cache |-> cache, result |-> None, fetched |-> TRUE]

\* answers from the cache, but takes over what the sources return now
load_knowledge_base_refresh(cache, docs, web) ==
  LET sources == DocSources(docs) \o WebSource(web)
  IN IF Truthy(cache)
     THEN [cache |-> IF sources # <<>> THEN Join(<<"\n\n">>, sources) ELSE cache,
           result |-> cache, fetched |-> FALSE]
     ELSE IF sources # <<>>
          THEN [cache |-> Join(<<"\n\n">>, sources),
                result |-> Join(<<"\n\n">>, sources), fetched |-> TRUE]
          ELSE [cache |-> cache, result |-> None, fetched |-> TRUE]

\* load_knowledge_base: the new cache, the value returned, and whether the
\* sources were fetched
load_knowledge_base(cache, docs, web) ==
  IF Truthy(cache)
  THEN [cache |-> cache, result |-> cache, fetched |-> FALSE]
  ELSE LET sources == DocSources(docs) \o WebSource(web)
       IN IF sources # <<>>
          THEN [cache |-> Join(<<"\n\n">>, sources),
                result |-> Join(<<"\n\n">>, sources), fetched |-> TRUE]
          ELSE [cache |-> cache, result |-> None, fetched |-> TRUE]

Turn(role, content) == [role |-> role, content |-> content]

\* leaves the knowledge out of the prompt
system_prompt_no_knowledge(knowledge) == PREAMBLE \o FORMATTING_GUIDELINES

system_prompt(knowledge) ==
  PREAMBLE
  \o (IF Truthy(knowledge) THEN USE_INFO \o knowledge \o ANSWER_DIRECTLY ELSE <<>>)
  \o FORMATTING_GUIDELINES

\* one list shared by all users: reads whichever conversation is stored
append_user_turn_shared(convs, u, text) ==
  LET h0 == IF DOMAIN convs = {} THEN <<>> ELSE convs[CHOOSE x \in DOMAIN convs : TRUE]
      h1 == Append(h0, Turn("user", text))
  IN IF Len(h1) > K THEN LastK(h1, K) ELSE h1

\* appends the user's turn and never cuts
append_user_turn_uncut(convs, u, text) ==
  Append(IF u \in DOMAIN convs THEN convs[u] ELSE <<>>, Turn("user", text))

\* user_conversations[user_id] after lines 299-308
append_user_turn(convs, u, text) ==
  LET h0 == IF u \in DOMAIN convs THEN convs[u] ELSE <<>>
      h1 == Append(h0, Turn("user", text))
  IN IF Len(h1) > K THEN LastK(h1, K) ELSE h1

\* overwrites the newest turn instead of appending after it
append_assistant_turn_replace(h, reply) ==
  Append(SubSeq(h, 1, Len(h) - 1), Turn("assistant", reply))

\* user_conversations[user_id] after line 358
append_assistant_turn(h, reply) == Append(h, Turn("assistant", reply))

\* lines 352-355: the text recorded and sent for a completion that returned
reply_text(completion) ==
  IF completion.content = <<>> THEN PLACEHOLDER ELSE completion.content

\* records a placeholder turn for a call that raised
history_with_placeholder(h, completion) ==
  append_assistant_turn(h, IF completion.raised THEN PLACEHOLDER ELSE reply_text(completion))

\* lines 346-358: the history once the inference call is over; a call that
\* raised leaves for the except branch before line 358
history_after_inference(h, completion) ==
  IF completion.raised THEN h ELSE append_assistant_turn(h, reply_text(completion))

\* the text handed to send_formatted_message first: line 361, or line 365
\* when the inference call raised
first_message(completion) ==
  IF completion.raised THEN APOLOGY ELSE reply_text(completion)

\* a store that holds one conversation
Put_only(convs, u, h) == [x \in {u} |-> h]

\* dict assignment, key lookup with a default, and dict.pop(key, None)
Put(convs, u, h) == [x \in DOMAIN convs \cup {u} |-> IF x = u THEN h ELSE convs[x]]
Get(convs, u) == IF u \in DOMAIN convs THEN convs[u] ELSE <<>>
Pop_nothing(convs, u) == convs
Pop(convs, u) == [x \in DOMAIN convs \ {u} |-> convs[x]]

Idle == [pc |-> "idle"]

\* the user's messages since the last clear, and those among them that got no
\* answer from the inference service
Asked(u) == Len(SelectSeq(appended[u], LAMBDA t : t.role = "user"))
Answered(u) ==
  Len(SelectSeq(appended[u], LAMBDA t : t.role = "assistant" /\ t.content # PLACEHOLDER))
Unanswered(u) == Asked(u) - Answered(u)

\* ----------------------------------------------------------------- startup
Init ==
  /\ env \in [{"TELEGRAM_TOKEN", "OPENAI_API_KEY"} -> BOOLEAN]
  /\ main = [pc |-> "import"]
  /\ knowledge_base_cache = None
  /\ user_conversations = <<>>
  /\ handler = [u \in Users |-> Idle]
  /\ appended = [u \in Users |-> <<>>]
  /\ kb_result = NoCall

\* asks for the transport's token only
ModuleInit_token_only ==
  /\ main.pc = "import"
  /\ main' = IF env["TELEGRAM_TOKEN"] THEN [pc |-> "main"] ELSE [pc |-> "ValueError"]
  /\ UNCHANGED <<env, knowledge_base_cache, user_conversations, handler,
                 appended, kb_result>>

\* module level, lines 29-51: refuse to start without both secrets
ModuleInit ==
  /\ main.pc = "import"
  /\ main' = IF env["TELEGRAM_TOKEN"] /\ env["OPENAI_API_KEY"]
             THEN [pc |-> "main"] ELSE [pc |-> "ValueError"]
  /\ UNCHANGED <<env, knowledge_base_cache, user_conversations, handler,
                 appended, kb_result>>

\* main(), lines 395-403: load the knowledge base before the bot is built
MainLoadKnowledge(docs, web) ==
  /\ main.pc = "main"
  /\ LET kb == load_knowledge_base(knowledge_base_cache, docs, web)
     IN /\ knowledge_base_cache' = kb.cache
        /\ kb_result' = kb.result
        /\ main' = [pc |-> "build", cache_before |-> knowledge_base_cache,
                    docs |-> docs, web |-> web,
                    fetched |-> kb.fetched, knowledge |-> kb.result]
  /\ UNCHANGED <<env, user_conversations, handler, appended>>

\* main(), lines 405-424: build the application, register the handlers, poll
MainStartPolling ==
  /\ main.pc = "build"
  /\ main' = [pc |-> "running"]
  /\ UNCHANGED <<env, knowledge_base_cache, user_conversations, handler,
                 appended, kb_result>>

\* -------------------------------------------------------------------- chat
\* line 312: what load_knowledge_base can do now, over the sources'
\* responses, and whether it fetched and every fetch failed
KnowledgeLoads ==
  { LET kb == load_knowledge_base(knowledge_base_cache, docs, web)
    IN [kb |-> kb, all_failed |-> kb.fetched /\ FailedSources(docs, web) = Sources] :
      docs \in DocFetches, web \in WebResponses }

\* chat(), lines 291-361 up to the first await: the user's turn, the
\* knowledge base, the prompt, the inference call and the assistant's turn
chat(u, completion) ==
  /\ main.pc = "running"
  /\ handler[u].pc = "idle"
  /\ \E load \in KnowledgeLoads :
       LET kb == load.kb
           n == Asked(u) + 1
           user_input == UserText(u, n)
           h == append_user_turn(user_conversations, u, user_input)
           messages == <<Turn("system", system_prompt(kb.result))>> \o h
           after == history_after_inference(h, completion)
       IN /\ completion \in Completions(u, n)
          /\ knowledge_base_cache' = kb.cache
          /\ kb_result' = kb.result
          /\ user_conversations' = Put(user_conversations, u, after)
          /\ appended' = [appended EXCEPT ![u] =
               @ \o <<Turn("user", user_input)>>
                 \o (IF completion.raised THEN <<>>
                     ELSE <<Turn("assistant", reply_text(completion))>>)]
          /\ handler' = [handler EXCEPT ![u] =
               [pc |-> IF completion.raised THEN "send_apology" ELSE "send_reply",
                text |-> first_message(completion),
                reply_failed |-> FALSE, all_failed |-> load.all_failed,
                n |-> n, user_input |-> user_input,
                before |-> Get(user_conversations, u),
                cache_before |-> knowledge_base_cache,
                fetched |-> kb.fetched, knowledge |-> kb.result,
                messages |-> messages, completion |-> completion]]
  /\ UNCHANGED <<env, main>>

\* sends the apology after the reply, whether or not the reply was delivered
SendReplyDone_then_apology(u, ok) ==
  /\ handler[u].pc = "send_reply"
  /\ handler' = [handler EXCEPT ![u] =
       [@ EXCEPT !.pc = "send_apology", !.text = APOLOGY, !.reply_failed = ~ok]]
  /\ UNCHANGED <<env, main, knowledge_base_cache, user_conversations,
                 appended, kb_result>>

\* line 361 returns, and the handler with it, or raises: a raise is caught at
\* line 363
SendReplyDone(u, ok) ==
  /\ handler[u].pc = "send_reply"
  /\ handler' = [handler EXCEPT ![u] =
       IF ok THEN Idle
       ELSE [@ EXCEPT !.pc = "send_apology", !.text = APOLOGY, !.reply_failed = TRUE]]
  /\ UNCHANGED <<env, main, knowledge_base_cache, user_conversations,
                 appended, kb_result>>

\* lines 365-371 return or raise: either way the handler is over
SendApologyDone(u, ok) ==
  /\ handler[u].pc = "send_apology"
  /\ handler' = [handler EXCEPT ![u] = Idle]
  /\ UNCHANGED <<env, main, knowledge_base_cache, user_conversations,
                 appended, kb_result>>

\* ----------------------------------------------------------------- buttons
\* button_callback(), lines 228-234: up to the await of query.answer()
button_callback(u) ==
  /\ main.pc = "running"
  /\ handler[u].pc = "idle"
  /\ handler' = [handler EXCEPT ![u] = [pc |-> "answer"]]
  /\ UNCHANGED <<env, main, knowledge_base_cache, user_conversations,
                 appended, kb_result>>

\* lines 287-288: the except branch that the edit's exception is caught in
EditFailed(h) == [pc |-> "edit_failed", data |-> h.data, popped |-> h.popped]

\* lines 234-286: query.answer() returned (or raised, which ends the handler);
\* the handler of the pressed button runs, then the edit is awaited
ButtonAnswered(u, ok, data) ==
  /\ handler[u].pc = "answer"
  /\ IF ok /\ data = "clear_history"
     THEN /\ user_conversations' = Pop(user_conversations, u)
          /\ appended' = [appended EXCEPT ![u] = <<>>]
          /\ handler' = [handler EXCEPT ![u] =
               [pc |-> "edit_message", data |-> data, text |-> CLEARED_TEXT,
                popped |-> u \in DOMAIN user_conversations]]
     ELSE /\ UNCHANGED <<user_conversations, appended>>
          /\ handler' = [handler EXCEPT ![u] =
               IF ok /\ data = "back_to_menu"
               THEN [pc |-> "edit_message", data |-> data, text |-> MENU_TEXT,
                     popped |-> FALSE]
               ELSE Idle]
  /\ UNCHANGED <<env, main, knowledge_base_cache, kb_result>>

\* lets the exception of the edit leave the handler
ButtonEdited_unguarded(u, ok) ==
  /\ handler[u].pc = "edit_message"
  /\ handler' = [handler EXCEPT ![u] = IF ok THEN Idle ELSE [pc |-> "raised"]]
  /\ UNCHANGED <<env, main, knowledge_base_cache, user_conversations,
                 appended, kb_result>>

\* lines 281-288: the edit returned, and the handler with it, or raised into
\* the except branch
ButtonEdited(u, ok) ==
  /\ handler[u].pc = "edit_message"
  /\ handler' = [handler EXCEPT ![u] = IF ok THEN Idle ELSE EditFailed(@)]
  /\ UNCHANGED <<env, main, knowledge_base_cache, user_conversations,
                 appended, kb_result>>

\* line 288: the except branch passes and the handler returns
HandlerReturn(u) ==
  /\ handler[u].pc = "edit_failed"
  /\ handler' = [handler EXCEPT ![u] = Idle]
  /\ UNCHANGED <<env, main, knowledge_base_cache, user_conversations,
                 appended, kb_result>>

\* ------------------------------------------------------------ specification
\* the bounds on the conversations held at one time
Budget(completion) ==
  /\ Asked("u1") + Asked("u2") < MaxMsgs
  /\ (completion.raised \/ completion.content = <<>>)
       => Unanswered("u1") + Unanswered("u2") < MaxFailedTurns

\* no handler is between the exception of its edit and its return
Returned == \A u \in Users : handler[u].pc # "edit_failed"

Next ==
  \/ ModuleInit
  \/ \E docs \in DocFetches, web \in WebResponses : MainLoadKnowledge(docs, web)
  \/ MainStartPolling
  \/ \E u \in Users :
       \E completion \in Completions(u, Asked(u) + 1) :
         Returned /\ Budget(completion) /\ chat(u, completion)
  \/ \E u \in Users, ok \in BOOLEAN : Returned /\ SendReplyDone(u, ok)
  \/ \E u \in Users, ok \in BOOLEAN : Returned /\ SendApologyDone(u, ok)
  \/ \E u \in Users : Returned /\ button_callback(u)
  \/ \E u \in Users, ok \in BOOLEAN, data \in ButtonData :
       Returned /\ ButtonAnswered(u, ok, data)
  \/ \E u \in Users, ok \in BOOLEAN : Returned /\ ButtonEdited(u, ok)
  \/ \E u \in Users : HandlerReturn(u)

Spec == Init /\ [][Next]_vars

\* Scenario C: one user, every inference call answered, every reply delivered
ScenarioNext ==
  \/ ModuleInit
  \/ \E docs \in DocFetches, web \in WebResponses : MainLoadKnowledge(docs, web)
  \/ MainStartPolling
  \/ /\ Asked("u1") < ScenarioMsgs
     /\ chat("u1", [raised |-> FALSE, content |-> Answer("u1", Asked("u1") + 1)])
  \/ SendReplyDone("u1", TRUE)

ScenarioSpec == Init /\ [][ScenarioNext]_vars

\* Every delivery of a message to the user succeeds; fetches and the
\* inference call return or raise within their timeouts, as in chat().
LiveBudget(completion) ==
  /\ Asked("u1") + Asked("u2") < LiveMsgs
  /\ (completion.raised \/ completion.content = <<>>)
       => Unanswered("u1") + Unanswered("u2") < MaxFailedTurns

Deliver(u) == Returned /\ (SendReplyDone(u, TRUE) \/ SendApologyDone(u, TRUE))

LiveNext ==
  \/ ModuleInit
  \/ \E docs \in DocFetches, web \in WebResponses : MainLoadKnowledge(docs, web)
  \/ MainStartPolling
  \/ \E u \in Users :
       \E completion \in Completions(u, Asked(u) + 1) :
         Returned /\ LiveBudget(completion) /\ chat(u, completion)
  \/ \E u \in Users : Deliver(u)
  \/ \E u \in Users : Returned /\ button_callback(u)
  \/ \E u \in Users, ok \in BOOLEAN, data \in ButtonData :
       Returned /\ ButtonAnswered(u, ok, data)
  \/ \E u \in Users, ok \in BOOLEAN : Returned /\ ButtonEdited(u, ok)
  \/ \E u \in Users : HandlerReturn(u)

\* the event loop runs every callback that is ready, in turn: a delivery that
\* has completed resumes its handler, and a handler that has ended returns
LiveSpec ==
  /\ Init /\ [][LiveNext]_vars
  /\ \A u \in Users : SF_vars(Deliver(u)) /\ WF_vars(HandlerReturn(u))

\* ------------------------------------------------------------------ claims
ChatPcs == {"send_reply", "send_apology"}
InChat(u) == handler[u].pc \in ChatPcs
Snapshot(u) == Get(user_conversations, u)
Exchange(u, n) == <<Turn("user", UserText(u, n)), Turn("assistant", Answer(u, n))>>

RECURSIVE Exchanges(_, _, _)
\* the exchanges from..to of user u, every one answered
Exchanges(u, from, to) ==
  IF from > to THEN <<>> ELSE Exchange(u, from) \o Exchanges(u, from + 1, to)

\* C1: in every reachable state every user's stored history holds at most K
\* turns.
C1_HistoryAtMostK ==
  \A u \in DOMAIN user_conversations : Len(user_conversations[u]) <= K

\* scenario C is over: the user's ScenarioMsgs messages are answered and sent
ScenarioDone ==
  /\ main.pc = "running"
  /\ handler["u1"].pc = "idle"
  /\ Asked("u1") = ScenarioMsgs

C3_InferenceRaises ==
  \A u \in Users :
    (InChat(u) /\ handler[u].completion.raised) =>
      LET mine == Turn("user", handler[u].user_input)
          grown == Append(handler[u].before, mine)
      IN /\ handler[u].pc = "send_apology"
         /\ handler[u].text = APOLOGY
         /\ Snapshot(u) = LastK(grown, K)
         /\ Snapshot(u)[Len(Snapshot(u))] = mine
         /\ handler[u].before = <<>> => Snapshot(u) = <<mine>>

C3_Witness ==
  \E u \in Users :
    /\ InChat(u) /\ handler[u].completion.raised
    /\ handler[u].before = <<>>
    /\ Len(Snapshot(u)) = 1

\* C4: when the inference service returns an empty reply, the user receives
\* the apology text and no assistant turn is appended to the history.
C4_EmptyReplyIsFailure ==
  \A u \in Users :
    (InChat(u) /\ ~handler[u].completion.raised /\ handler[u].completion.content = <<>>) =>
      /\ handler[u].text = APOLOGY
      /\ Snapshot(u)[Len(Snapshot(u))] = Turn("user", handler[u].user_input)

\* a step in which load_knowledge_base is called: by main(), or by a chat turn
KbCallStep ==
  \/ main.pc = "main" /\ main'.pc = "build"
  \/ \E u \in Users : handler[u].pc = "idle" /\ handler'[u].pc \in ChatPcs

\* C5 as stated: any call of load_knowledge_base returns what the call before
\* it returned (so any two calls return the same), whatever the sources do.
C5_SameResultTwice ==
  [][(KbCallStep /\ kb_result # NoCall) => kb_result' = kb_result]_vars

\* C5 as amended: once a call has returned a blob, every later call returns
\* that same blob, whatever the sources return by then (a call that returned
\* absent cached nothing: the next call fetches again and may return a blob).
C5_SameResultOnceLoaded ==
  [][(KbCallStep /\ kb_result # NoCall /\ kb_result # None) => kb_result' = kb_result]_vars

\* a chat turn got from the cache the blob that an earlier call had returned
C5_Witness ==
  \E u \in Users :
    /\ InChat(u)
    /\ Truthy(handler[u].cache_before)
    /\ handler[u].knowledge = handler[u].cache_before
    /\ kb_result = handler[u].knowledge

\* a response that is no fetch failure: no exception and status 200
Succeeded(resp) == ~resp.raised /\ resp.status = 200

\* t occurs in s as a contiguous run starting at or after position from
OccursFrom(t, s, from) ==
  \E i \in from..(Len(s) - Len(t) + 1) : SubSeq(s, i, i + Len(t) - 1) = t

\* the blob holds the document's text, then, after it, the website's text
InOrder(blob, doc, web) ==
  \E i \in 1..(Len(blob) + 1) :
    /\ i + Len(doc) - 1 <= Len(blob)
    /\ SubSeq(blob, i, i + Len(doc) - 1) = doc
    /\ OccursFrom(web, blob, i + Len(doc))

\* the text a response contributes, empty when the fetch failed
DocText(resp) == IF Succeeded(resp) THEN resp.text ELSE <<>>
WebText(resp) == IF Succeeded(resp) THEN fetch_website_content(resp) ELSE <<>>

\* the claim as stated, of one call that fetched and returned result
AbsentIffAllFail(result, docs, web) ==
  LET all_failed == ~Succeeded(docs[1]) /\ ~Succeeded(web)
  IN /\ (result = None) <=> all_failed
     /\ ~all_failed => InOrder(result, DocText(docs[1]), WebText(web))

\* the claim as amended, of one call that fetched and returned result
AbsentIffNoText(result, docs, web) ==
  LET no_text == DocText(docs[1]) = <<>> /\ WebText(web) = <<>>
  IN /\ (result = None) <=> no_text
     /\ ~no_text =>
          /\ result # <<>>
          /\ InOrder(result, DocText(docs[1]), WebText(web))

\* the call main() has made, and the call a chat turn would make now
MainHasFetched == main.pc = "build" /\ main.fetched
ChatWouldFetch == main.pc = "running" /\ ~Truthy(knowledge_base_cache)
LoadNow(docs, web) == load_knowledge_base(knowledge_base_cache, docs, web)

\* C6 as stated: a call that fetches returns absent exactly when every fetch
\* failed; otherwise a blob holding every successful source's text,
\* documents first, then the website.
C6_AbsentIffAllFetchesFail ==
  /\ MainHasFetched => AbsentIffAllFail(main.knowledge, main.docs, main.web)
  /\ ChatWouldFetch =>
       \A docs \in DocFetches, web \in WebResponses :
         AbsentIffAllFail(LoadNow(docs, web).result, docs, web)

\* C6 as amended: a call that fetches returns absent exactly when no source
\* yields non-empty text (a failed fetch and a successful fetch of empty text
\* both yield nothing); otherwise a non-empty blob holding every non-empty
\* fetched text, documents first, then the website.
C6_AbsentIffNoText ==
  /\ MainHasFetched => AbsentIffNoText(main.knowledge, main.docs, main.web)
  /\ ChatWouldFetch =>
       \A docs \in DocFetches, web \in WebResponses :
         /\ LoadNow(docs, web).fetched
         /\ AbsentIffNoText(LoadNow(docs, web).result, docs, web)

\* both the document and the website were fetched with text
C6_Witness ==
  /\ MainHasFetched
  /\ DocText(main.docs[1]) # <<>> /\ WebText(main.web) # <<>>
  /\ main.knowledge = knowledge_base_cache

\* a chat turn of user u starts in this step
ChatStep(u) == handler[u].pc = "idle" /\ handler'[u].pc \in ChatPcs

\* C7: the cache is write-once: it only ever changes from absent to a
\* non-empty blob, so at most once, and a call of load_knowledge_base made
\* once it is populated fetches nothing and returns the cached blob.
C7_CacheWriteOnce ==
  [][/\ knowledge_base_cache # None => knowledge_base_cache' = knowledge_base_cache
     /\ knowledge_base_cache' # knowledge_base_cache => Truthy(knowledge_base_cache')
     /\ \A u \in Users :
          (ChatStep(u) /\ knowledge_base_cache # None) =>
            /\ ~handler'[u].fetched
            /\ handler'[u].knowledge = knowledge_base_cache]_vars

\* two chat turns in flight: one populated the cache, the other found it
C7_Witness ==
  \E u, v \in Users :
    /\ InChat(u) /\ InChat(v)
    /\ handler[u].fetched /\ Truthy(handler[u].knowledge)
    /\ ~handler[v].fetched /\ handler[v].cache_before = handler[u].knowledge

\* s is the end of t
IsSuffix(s, t) == Len(s) <= Len(t) /\ SubSeq(t, Len(t) - Len(s) + 1, Len(t)) = s

\* the turns of u's conversation when the prompt of the turn in flight was
\* built: all of them, less the reply the turn has appended since
LogAtPrompt(u) ==
  IF handler[u].completion.raised THEN appended[u]
  ELSE SubSeq(appended[u], 1, Len(appended[u]) - 1)

\* C8: the prompt of a chat turn of user u is one system entry followed by a
\* history snapshot that is the end of u's own conversation up to and
\* including the request's own user turn, its last element; no turn in it
\* carries another user's text, whatever the other users' handlers do.
C8_SnapshotIsOwn ==
  \A u \in Users :
    InChat(u) =>
      LET snap == Tail(handler[u].messages)
      IN /\ handler[u].messages[1].role = "system"
         /\ snap # <<>>
         /\ snap[Len(snap)] = Turn("user", handler[u].user_input)
         /\ IsSuffix(snap, LogAtPrompt(u))
         /\ \A i \in 1..Len(snap) :
              /\ snap[i].role \in {"user", "assistant"}
              /\ snap[i].content = PLACEHOLDER \/ snap[i].content[2] = u

\* both users have a chat turn in flight, each on a history of several turns
C8_Witness ==
  \E u, v \in Users :
    /\ u # v /\ InChat(u) /\ InChat(v)
    /\ Len(handler[u].messages) > 2 /\ Len(handler[v].messages) > 2

\* what holds of the store after a clear and for a user without conversation
ClearedIsEmpty ==
  \A u \in Users :
    /\ (handler[u].pc = "edit_message" /\ handler[u].data = "clear_history") =>
         u \notin DOMAIN user_conversations /\ Snapshot(u) = <<>>
    /\ appended[u] = <<>> => Snapshot(u) = <<>>
    /\ (InChat(u) /\ handler[u].n = 1) =>
         /\ handler[u].before = <<>>
         /\ Tail(handler[u].messages) = <<Turn("user", handler[u].user_input)>>

\* C9: after a clear_history request the user's history is empty whatever it
\* was before, and the next chat turn starts from an empty history; a user
\* without a conversation has an empty history, and clearing it changes
\* nothing in the store and goes on to the edit like any other clear.
C9_ClearEmpties ==
  [][/\ ClearedIsEmpty'
     /\ \A u \in Users :
          (handler[u].pc = "answer" /\ handler'[u].pc = "edit_message"
             /\ handler'[u].data = "clear_history") =>
            /\ handler'[u].popped = (u \in DOMAIN user_conversations)
            /\ ~handler'[u].popped => user_conversations' = user_conversations]_vars

\* one user cleared a conversation, the other cleared without having one
C9_Witness ==
  \E u, v \in Users :
    /\ handler[u].pc = "edit_message" /\ handler[u].data = "clear_history"
    /\ handler[u].popped
    /\ handler[v].pc = "edit_message" /\ handler[v].data = "clear_history"
    /\ ~handler[v].popped

\* C10: each user's stored history is the end of the sequence of turns
\* appended for that user since the last clear, in arrival order: what the
\* cut drops is a prefix of that sequence, and nothing else is ever dropped
\* or moved.
C10_HistoryIsSuffix ==
  \A u \in Users :
    /\ IsSuffix(Snapshot(u), appended[u])
    /\ appended[u] # <<>> => Snapshot(u) # <<>>

\* a history that has lost its oldest turns
C10_Witness ==
  \E u \in Users :
    /\ Len(Snapshot(u)) >= K
    /\ Len(appended[u]) > Len(Snapshot(u))

\* the user's stored history when the prompt of the turn in flight was built:
\* what is stored now, less the reply the turn has appended since
StoredAtPrompt(u) ==
  IF handler[u].completion.raised THEN Snapshot(u)
  ELSE SubSeq(Snapshot(u), 1, Len(Snapshot(u)) - 1)

\* C11: the messages handed to the inference service are exactly one system
\* entry, which holds the whole cached knowledge text verbatim when there is
\* knowledge and no knowledge section when there is none, followed by every
\* turn of the user's stored history, in order, role and content unchanged,
\* and nothing else.
C11_PromptShape ==
  \A u \in Users :
    InChat(u) =>
      LET messages == handler[u].messages
          content == messages[1].content
          knowledge == handler[u].knowledge
      IN /\ messages[1].role = "system"
         /\ \A i \in 2..Len(messages) : messages[i].role # "system"
         /\ OccursFrom(PREAMBLE, content, 1)
         /\ Truthy(knowledge) =>
              /\ knowledge = knowledge_base_cache
              /\ OccursFrom(USE_INFO \o knowledge, content, 1)
         /\ ~Truthy(knowledge) =>
              /\ ~OccursFrom(USE_INFO, content, 1)
              /\ content = PREAMBLE \o FORMATTING_GUIDELINES
         /\ Tail(messages) = StoredAtPrompt(u)

\* a prompt with the knowledge of both sources and a history of several
\* turns, while the other user's prompt was built without knowledge
C11_Witness ==
  \E u, v \in Users :
    /\ InChat(u) /\ InChat(v)
    /\ Truthy(handler[u].knowledge)
    /\ OccursFrom(DOC_LABEL, handler[u].knowledge, 1)
    /\ OccursFrom(WEBSITE_LABEL, handler[u].knowledge, 1)
    /\ Len(handler[u].messages) > 3
    /\ handler[v].knowledge = None

\* the body of an error response
ErrorBody == <<"Not Found">>

\* C12: a failed fetch, of any of the sources or of all of them, never
\* reaches the user: the chat turn still sends its request to the inference
\* service, with the knowledge the other sources gave or with none, nothing
\* of a failed response is in that knowledge, and the turn's output is the
\* apology only if the inference call raised or the reply could not be sent.
C12_FetchFailureNotPropagated ==
  /\ \A u \in Users :
       (InChat(u) /\ handler[u].fetched) =>
         LET h == handler[u]
         IN /\ h.messages[1] = Turn("system", system_prompt(h.knowledge))
            /\ h.all_failed => h.knowledge = None
            /\ h.knowledge # None => ~OccursFrom(ErrorBody, h.knowledge, 1)
            /\ h.pc = "send_apology" => (h.completion.raised \/ h.reply_failed)
            /\ (~h.completion.raised /\ ~h.reply_failed) =>
                 /\ h.pc = "send_reply"
                 /\ h.text = reply_text(h.completion)
  /\ ChatWouldFetch =>
       \A docs \in DocFetches, web \in WebResponses :
         FailedSources(docs, web) # {} =>
           LET result == LoadNow(docs, web).result
           IN /\ FailedSources(docs, web) = Sources => result = None
              /\ result # None =>
                   /\ ~OccursFrom(ErrorBody, result, 1)
                   /\ InOrder(result, DocText(docs[1]), WebText(web))

\* every fetch of a chat turn failed, and the turn is sending the model's
\* reply
C12_Witness ==
  \E u \in Users :
    /\ InChat(u) /\ handler[u].fetched /\ handler[u].all_failed
    /\ handler[u].knowledge = None
    /\ handler[u].pc = "send_reply"
    /\ handler[u].text = Answer(u, handler[u].n)

\* the chat turn of user u ends in this step with the apology delivered
ApologySent(u) ==
  /\ handler[u].pc = "send_apology" /\ handler[u].text = APOLOGY
  /\ handler'[u] = Idle

\* C13: whenever a chat turn ends with the apology text as its output,
\* whatever step of the turn failed (the delivery of the reply included), the
\* user's history holds no assistant turn for that request: it ends with the
\* request's user turn.
C13_ApologyMeansNoAssistantTurn ==
  [][\A u \in Users :
       ApologySent(u) =>
         LET history == Get(user_conversations', u)
         IN /\ history # <<>>
            /\ history[Len(history)] = Turn("user", handler[u].user_input)]_vars

\* C14: when either secret is missing the process fails at startup: main()
\* is never entered, so no source is fetched, the application is never built
\* or run, and no message is ever handled.
C14_MissingSecretIsFatal ==
  (~env["TELEGRAM_TOKEN"] \/ ~env["OPENAI_API_KEY"]) =>
    /\ main.pc \in {"import", "ValueError"}
    /\ kb_result = NoCall /\ knowledge_base_cache = None
    /\ \A u \in Users : handler[u] = Idle
    /\ user_conversations = <<>>

\* the import has failed for the want of the inference key alone
C14_Witness ==
  /\ env["TELEGRAM_TOKEN"] /\ ~env["OPENAI_API_KEY"]
  /\ main.pc = "ValueError"

\* the edit of user u's button handler fails in this step
EditFails(u) == handler[u].pc = "edit_message" /\ handler'[u].pc = "edit_failed"

\* C15: a failed edit is swallowed: the button handler ends without raising
\* and without sending a message, and leaves the store as the button's action
\* made it; after clear_history the user's history is empty although the
\* edit failed.
C15_EditFailureSwallowed ==
  [][\A u \in Users :
       /\ (handler[u].pc = "edit_message" /\ handler'[u] # handler[u]) =>
            handler'[u].pc \in {"idle", "edit_failed"}
       /\ EditFails(u) =>
            /\ user_conversations' = user_conversations
            /\ handler[u].data = "clear_history" =>
                 /\ u \notin DOMAIN user_conversations'
                 /\ Get(user_conversations', u) = <<>>
       /\ (handler[u].pc = "edit_failed" /\ handler'[u] # handler[u]) =>
            /\ handler'[u] = Idle
            /\ user_conversations' = user_conversations]_vars

\* a clear_history that removed a conversation is in the except branch of its
\* failed edit, and the conversation is gone
C15_Witness ==
  \E u \in Users :
    /\ handler[u].pc = "edit_failed"
    /\ handler[u].data = "clear_history" /\ handler[u].popped
    /\ u \notin DOMAIN user_conversations

\* C16: every request to the inference service carries at most K history
\* turns after its system entry, K + 1 entries in all, however long the
\* stored history was before the turn: they are the last K of that history
\* with the user's turn appended.
C16_PromptAtMostK ==
  \A u \in Users :
    InChat(u) =>
      LET h == handler[u]
      IN /\ Len(h.messages) <= K + 1
         /\ Len(Tail(h.messages)) <= K
         /\ Tail(h.messages) = LastK(Append(h.before, Turn("user", h.user_input)), K)

\* a turn that found K turns stored: its prompt has lost the oldest of them
C16_Witness ==
  \E u \in Users :
    /\ InChat(u)
    /\ Len(handler[u].before) >= K
    /\ Len(handler[u].messages) = K + 1
    /\ handler[u].messages[2] = handler[u].before[Len(handler[u].before) - K + 2]

\* user v's stored history is the same before and after the step
SameHistory(v) ==
  /\ (v \in DOMAIN user_conversations') = (v \in DOMAIN user_conversations)
  /\ Get(user_conversations', v) = Get(user_conversations, v)

\* user u's clear_history is carried out in this step
ClearStep(u) ==
  /\ handler[u].pc = "answer"
  /\ handler'[u].pc = "edit_message" /\ handler'[u].data = "clear_history"

\* user u's chat turn in flight takes a step: a delivery returns or raises
ChatGoesOn(u) == InChat(u) /\ handler'[u] # handler[u]

\* C17: a step of a chat turn of user u, whether the turn succeeds or fails,
\* and a clear_history of user u leave the stored history of every other
\* user as it was; a clear_history leaves the knowledge cache as it was.
C17_PerUserIsolation ==
  [][\A u \in Users :
       /\ (ChatStep(u) \/ ChatGoesOn(u) \/ ClearStep(u)) =>
            \A v \in Users \ {u} : SameHistory(v)
       /\ ClearStep(u) =>
            /\ knowledge_base_cache' = knowledge_base_cache
            /\ kb_result' = kb_result]_vars

\* one user has cleared a conversation and the other has a failed chat turn
\* in flight, on a history of several turns and with the cache populated
C17_Witness ==
  \E u, v \in Users :
    /\ u # v
    /\ handler[u].pc = "edit_message" /\ handler[u].data = "clear_history"
    /\ handler[u].popped
    /\ InChat(v) /\ handler[v].completion.raised
    /\ Len(handler[v].before) >= 2
    /\ Len(Snapshot(v)) = Len(handler[v].before) + 1
    /\ Truthy(knowledge_base_cache)

\* the message that a chat turn in flight is sending is the model's reply, or
\* the apology text when the inference call raised
ReplyOrApology(h) ==
  IF h.completion.raised THEN h.text = APOLOGY
  ELSE h.text = reply_text(h.completion) /\ h.text # APOLOGY

\* C18: when every delivery succeeds (and every fetch and inference call
\* returns or raises), each text message taken up by chat() leads to exactly
\* one message to the user, the model's reply or the apology text: the turn
\* always ends, and the one step it takes after the message was taken up is
\* the delivery of one of the two, which ends it (never both, never neither).
C18_ExactlyOneMessage ==
  /\ \A u \in Users : InChat(u) ~> (handler[u] = Idle)
  /\ [][\A u \in Users :
          (InChat(u) /\ handler'[u] # handler[u]) =>
            /\ ReplyOrApology(handler[u])
            /\ handler'[u] = Idle]_vars

\* one turn is over, its reply delivered and stored, while the other user's
\* turn, whose inference call raised, is about to deliver the apology
C18_Witness ==
  \E u, v \in Users :
    /\ handler[u] = Idle /\ appended[u] # <<>>
    /\ appended[u][Len(appended[u])] = Turn("assistant", Answer(u, Asked(u)))
    /\ handler[v].pc = "send_apology" /\ handler[v].completion.raised

====
